---- MODULE Spec2Model ----
(***************************************************************************)
(* A model of the Kaleidoscope front end of src/toy.cpp: the lexer         *)
(* (getToken), the operator table (BinOpPrecedence, GetTokenPrecedence),   *)
(* the recursive-descent parser and the driver loop (MainLoop).            *)
(*                                                                         *)
(* Characters and tokens are integers, as in the source: a character is    *)
(* its ASCII code, getchar() yields EOF (-1) at the end of the input, and  *)
(* a token is either a negative Token enumerator or a character code.      *)
(* Every function of the source that reads or writes the globals is an     *)
(* operator from a machine state (a record of the globals) to a machine    *)
(* state plus its return value.  The LLVM code generator (lines 394-500)   *)
(* reads the AST only and touches none of the front end's globals; it is   *)
(* not modelled, and `diag` holds the diagnostics of the parser only.      *)
(***************************************************************************)
EXTENDS Integers, Sequences, FiniteSets, TLC

(***************************************************************************)
(* Token enumerators and character codes.                                  *)
(***************************************************************************)
token_eof == -1
token_def == -2
token_extern == -3
token_identifier == -4
token_number == -5
EOF == -1

CH_TAB == 9
CH_LF == 10
CH_CR == 13
CH_SPACE == 32
CH_HASH == 35
CH_LPAREN == 40
CH_RPAREN == 41
CH_STAR == 42
CH_PLUS == 43
CH_COMMA == 44
CH_MINUS == 45
CH_DOT == 46
CH_SEMI == 59
CH_LESS == 60
\* A byte above 127: getchar() returns it as 233, and isascii(233) is false.
CH_HIGH == 233

\* The ASCII codes of the letters and digits the inputs are written with.
Ord ==
    ("a" :> 97) @@ ("b" :> 98) @@ ("c" :> 99) @@ ("d" :> 100) @@ ("e" :> 101)
    @@ ("f" :> 102) @@ ("n" :> 110) @@ ("o" :> 111) @@ ("r" :> 114)
    @@ ("t" :> 116) @@ ("x" :> 120)
    @@ ("0" :> 48) @@ ("1" :> 49) @@ ("2" :> 50) @@ ("3" :> 51) @@ ("4" :> 52) @@ ("5" :> 53)
    @@ (" " :> 32) @@ ("(" :> 40) @@ (")" :> 41) @@ ("*" :> 42) @@ ("+" :> 43)
    @@ ("," :> 44) @@ ("-" :> 45) @@ ("." :> 46) @@ (";" :> 59) @@ ("<" :> 60)
    @@ ("#" :> 35) @@ ("_" :> 95) @@ ("p" :> 112)

\* The character codes of a text given as a tuple of one-character strings.
Str(t) == [i \in 1..Len(t) |-> Ord[t[i]]]

(***************************************************************************)
(* <cctype> in the "C" locale, on the values getchar() returns.            *)
(***************************************************************************)
isspace(c) == c \in {CH_TAB, CH_LF, 11, 12, CH_CR, CH_SPACE}
isdigit(c) == c \in 48..57
isalpha(c) == c \in 65..90 \/ c \in 97..122
isalnum(c) == isalpha(c) \/ isdigit(c)
isascii(c) == c \in 0..127

(***************************************************************************)
(* strtod on a text of digits and dots (the only texts the lexer hands     *)
(* it): the value of the longest prefix digits ['.' digits] that holds a   *)
(* digit, and 0 when there is none.  The value d1..dn / 10^k is kept as    *)
(* the pair (m, e) with m / 10^e in lowest decimal terms, so that "1",     *)
(* "1.0" and "01" are one value and "1.5" another.                         *)
(***************************************************************************)
RECURSIVE DigitsEnd(_, _)
DigitsEnd(t, i) ==
    IF i <= Len(t) /\ isdigit(t[i]) THEN DigitsEnd(t, i + 1) ELSE i

RECURSIVE DecValue(_, _, _)
DecValue(t, i, j) ==
    \* the integer written by the digits t[i..j-1]
    IF i >= j THEN 0 ELSE DecValue(t, i, j - 1) * 10 + (t[j - 1] - 48)

RECURSIVE Pow10(_)
Pow10(k) == IF k = 0 THEN 1 ELSE 10 * Pow10(k - 1)

RECURSIVE Normalise(_, _)
Normalise(m, e) ==
    IF e > 0 /\ m % 10 = 0 THEN Normalise(m \div 10, e - 1) ELSE [m |-> m, e |-> e]

strtod(t) ==
    LET a == DigitsEnd(t, 1)
        hasDot == a <= Len(t) /\ t[a] = CH_DOT
        b == IF hasDot THEN DigitsEnd(t, a + 1) ELSE a
        intDigits == a - 1
        fracDigits == IF hasDot THEN b - (a + 1) ELSE 0
    IN  IF intDigits + fracDigits = 0
        THEN [m |-> 0, e |-> 0]
        ELSE Normalise(DecValue(t, 1, a) * Pow10(fracDigits)
                         + (IF hasDot THEN DecValue(t, a + 1, b) ELSE 0),
                       fracDigits)

(***************************************************************************)
(* The machine state: the globals of the program and its input.           *)
(*   stdin           the characters getchar() has not returned yet         *)
(*   ngetc           the number of getchar() calls made so far             *)
(*   LastChar        getToken's static look-ahead character                *)
(*   IdentifierStr, NumVal, CurToken, BinOpPrecedence   the globals        *)
(*   ntok            the number of getNextToken() calls made so far        *)
(*   diag            the messages LogError has written                     *)
(*   errAt           the value of ntok at the latest LogError call         *)
(*                                                                         *)
(* Then(v, F) is F applied to the value v, "auto x = v; F(x)"; it is       *)
(* written with a bound variable so that v is evaluated once.              *)
(***************************************************************************)
Then(v, F(_)) == CHOOSE y \in {F(x) : x \in {v}} : TRUE

\* LastChar = getchar();
getchar(s) ==
    IF s.stdin = <<>>
    THEN [s EXCEPT !.LastChar = EOF, !.ngetc = @ + 1]
    ELSE [s EXCEPT !.LastChar = Head(s.stdin), !.stdin = Tail(s.stdin),
                   !.ngetc = @ + 1]

\* while(isspace(LastChar)) LastChar = getchar();
RECURSIVE SkipSpaces(_)
SkipSpaces(s) ==
    IF isspace(s.LastChar)
    THEN Then(getchar(s), LAMBDA s1 : SkipSpaces(s1))
    ELSE s

\* while(isalnum(LastChar = getchar())) IdentifierStr += LastChar;
RECURSIVE LexIdentifierTail(_)
LexIdentifierTail(s) ==
    Then(getchar(s), LAMBDA s1 :
        IF isalnum(s1.LastChar)
        THEN Then([s1 EXCEPT !.IdentifierStr = Append(@, s1.LastChar)],
                  LAMBDA s2 : LexIdentifierTail(s2))
        ELSE s1)

\* The keyword or identifier token of the text in IdentifierStr.
IdentifierToken(s) ==
    [st |-> s,
     tok |-> IF s.IdentifierStr = Str(<<"d", "e", "f">>)
             THEN token_def
             ELSE IF s.IdentifierStr = Str(<<"e", "x", "t", "e", "r", "n">>)
             THEN token_extern
             ELSE token_identifier]

\* do { NumStr += LastChar; LastChar = getchar(); }
\* while(isdigit(LastChar) || LastChar == '.');
\* NumVal = strtod(NumStr.c_str(), nullptr); return token_number;
RECURSIVE LexNumber(_, _)
LexNumber(s, NumStr) ==
    Then(getchar(s), LAMBDA s1 :
        IF isdigit(s1.LastChar) \/ s1.LastChar = CH_DOT
        THEN LexNumber(s1, Append(NumStr, s.LastChar))
        ELSE [st |-> [s1 EXCEPT !.NumVal = strtod(Append(NumStr, s.LastChar))],
              tok |-> token_number])

\* SkipComment with a comment that only a line feed or the end of the input
\* ends: a carriage return is skipped with the comment.
RECURSIVE SkipComment_LineFeedOnly(_)
SkipComment_LineFeedOnly(s) ==
    Then(getchar(s), LAMBDA s1 :
        IF s1.LastChar /= EOF /\ s1.LastChar /= CH_LF
        THEN SkipComment_LineFeedOnly(s1)
        ELSE s1)

\* do LastChar = getchar();
\* while (LastChar != EOF && LastChar != '\n' && LastChar != '\r');
RECURSIVE SkipComment(_)
SkipComment(s) ==
    Then(getchar(s), LAMBDA s1 :
        IF s1.LastChar /= EOF /\ s1.LastChar /= CH_LF /\ s1.LastChar /= CH_CR
        THEN SkipComment(s1)
        ELSE s1)

\* LexEofOrChar without the check for the end of the file: EOF is returned
\* as a character would be, and another character is read.
LexEofOrChar_EatsEof(s) == [st |-> getchar(s), tok |-> s.LastChar]

\* The last two returns of getToken: the end of file, which is not eaten,
\* and any other character, returned as its code.
LexEofOrChar(s) ==
    IF s.LastChar = EOF
    THEN [st |-> s, tok |-> token_eof]
    ELSE [st |-> getchar(s), tok |-> s.LastChar]

RECURSIVE getToken(_)
getToken(s0) ==
    Then(SkipSpaces(s0), LAMBDA s :
        IF isalpha(s.LastChar)
        THEN Then(LexIdentifierTail([s EXCEPT !.IdentifierStr = <<s.LastChar>>]),
                  LAMBDA s1 : IdentifierToken(s1))
        ELSE IF isdigit(s.LastChar) \/ s.LastChar = CH_DOT
        THEN LexNumber(s, <<>>)
        ELSE IF s.LastChar = CH_HASH
        THEN Then(SkipComment(s), LAMBDA s1 :
                 IF s1.LastChar /= EOF THEN getToken(s1) ELSE LexEofOrChar(s1))
        ELSE LexEofOrChar(s))

(***************************************************************************)
(* The AST.  A unique_ptr is either nullptr or one of the nodes below.     *)
(***************************************************************************)
nullptr == [kind |-> "nullptr"]
NumberExprAST(val) == [kind |-> "Number", Val |-> val]
VariableExprAST(name) == [kind |-> "Variable", Name |-> name]
BinaryExprAST(op, lhs, rhs) ==
    [kind |-> "Binary", Op |-> op, LHS |-> lhs, RHS |-> rhs]
CallExprAST(callee, args) == [kind |-> "Call", Callee |-> callee, Args |-> args]
PrototypeAST(name, args) == [kind |-> "Prototype", Name |-> name, Args |-> args]
FunctionAST(proto, body) == [kind |-> "Function", Proto |-> proto, Body |-> body]

IsNull(p) == p.kind = "nullptr"

(***************************************************************************)
(* The parser.  A parse function maps a machine state to the state it      *)
(* leaves and the pointer it returns.                                      *)
(***************************************************************************)
RECURSIVE ParseExpression(_)
RECURSIVE ParsePrimary(_)
RECURSIVE ParseBinOpRHS(_, _, _)
RECURSIVE ParseCallArgs(_, _)
RECURSIVE ParsePrototypeArgs(_, _)

\* return CurToken = getToken();
getNextToken(s) ==
    Then(getToken(s), LAMBDA r :
        [r.st EXCEPT !.CurToken = r.tok, !.ntok = @ + 1])

\* BinOpPrecedence[CurToken] on a std::map: a key that is absent is inserted
\* with the value 0 before it is read.
MapIndex(map, key) == IF key \in DOMAIN map THEN map ELSE (key :> 0) @@ map

\* GetTokenPrecedence without "if(TokenPrec <= 0) return -1".
GetTokenPrecedence_NoSentinel(s) ==
    IF ~isascii(s.CurToken)
    THEN [st |-> s, prec |-> -1]
    ELSE Then(MapIndex(s.BinOpPrecedence, s.CurToken), LAMBDA map :
             [st |-> [s EXCEPT !.BinOpPrecedence = map],
              prec |-> map[s.CurToken]])

GetTokenPrecedence(s) ==
    IF ~isascii(s.CurToken)
    THEN [st |-> s, prec |-> -1]
    ELSE Then(MapIndex(s.BinOpPrecedence, s.CurToken), LAMBDA map :
             [st |-> [s EXCEPT !.BinOpPrecedence = map],
              prec |-> IF map[s.CurToken] <= 0 THEN -1 ELSE map[s.CurToken]])

LogError(s, Str_) ==
    [st |-> [s EXCEPT !.diag = Append(@, Str_), !.errAt = s.ntok],
     res |-> nullptr]

LogErrorP(s, Str_) == LogError(s, Str_)

\* ParseNumberExpr without "getNextToken(); //consume the number".
ParseNumberExpr_NoConsume(s) == [st |-> s, res |-> NumberExprAST(s.NumVal)]

ParseNumberExpr(s) ==
    [st |-> getNextToken(s), res |-> NumberExprAST(s.NumVal)]

\* ParseParenExpr without "if(!V) return nullptr".
ParseParenExpr_NoNullCheck(s) ==
    Then(getNextToken(s), LAMBDA s1 :
    Then(ParseExpression(s1), LAMBDA V :
        IF V.st.CurToken /= CH_RPAREN
        THEN LogError(V.st, "expected ')'")
        ELSE [st |-> getNextToken(V.st), res |-> V.res]))

ParseParenExpr(s) ==
    Then(getNextToken(s), LAMBDA s1 :
    Then(ParseExpression(s1), LAMBDA V :
        IF IsNull(V.res)
        THEN [st |-> V.st, res |-> nullptr]
        ELSE IF V.st.CurToken /= CH_RPAREN
        THEN LogError(V.st, "expected ')'")
        ELSE [st |-> getNextToken(V.st), res |-> V.res]))

\* The while(true) loop of ParseIdentifierExpr, entered with the Args so
\* far.  ok is FALSE when the loop returned nullptr from the function.
ParseCallArgs(s, Args) ==
    Then(ParseExpression(s), LAMBDA Arg :
        IF IsNull(Arg.res)
        THEN [st |-> Arg.st, ok |-> FALSE, Args |-> Args]
        ELSE IF Arg.st.CurToken = CH_RPAREN
        THEN [st |-> Arg.st, ok |-> TRUE, Args |-> Append(Args, Arg.res)]
        ELSE IF Arg.st.CurToken /= CH_COMMA
        THEN [st |-> LogError(Arg.st,
                              "expected ')' or ',' in argument list").st,
              ok |-> FALSE, Args |-> Args]
        ELSE Then(getNextToken(Arg.st), LAMBDA s1 :
                 ParseCallArgs(s1, Append(Args, Arg.res))))

\* ParseCall without "if(CurToken != ')')": an argument is always parsed.
ParseCall_NoEmptyList(s1, IdName) ==
    Then(getNextToken(s1), LAMBDA s2 :
    Then(ParseCallArgs(s2, <<>>), LAMBDA a :
        IF ~a.ok
        THEN [st |-> a.st, res |-> nullptr]
        ELSE [st |-> getNextToken(a.st), res |-> CallExprAST(IdName, a.Args)]))

\* ParseIdentifierExpr from "//Call" on: the '(' is the current token.
ParseCall(s1, IdName) ==
    Then(getNextToken(s1), LAMBDA s2 :
    Then(IF s2.CurToken /= CH_RPAREN
         THEN ParseCallArgs(s2, <<>>)
         ELSE [st |-> s2, ok |-> TRUE, Args |-> <<>>], LAMBDA a :
        IF ~a.ok
        THEN [st |-> a.st, res |-> nullptr]
        ELSE [st |-> getNextToken(a.st), res |-> CallExprAST(IdName, a.Args)]))

ParseIdentifierExpr(s) ==
    Then(getNextToken(s), LAMBDA s1 :
        IF s1.CurToken /= CH_LPAREN
        THEN [st |-> s1, res |-> VariableExprAST(s.IdentifierStr)]
        ELSE ParseCall(s1, s.IdentifierStr))

ParsePrimary(s) ==
    IF s.CurToken = token_identifier THEN ParseIdentifierExpr(s)
    ELSE IF s.CurToken = token_number THEN ParseNumberExpr(s)
    ELSE IF s.CurToken = CH_LPAREN THEN ParseParenExpr(s)
    ELSE LogError(s, "unknown token when expecting an expression")

\* One turn of the while(true) loop of ParseBinOpRHS and the turns after it.
\* t is what GetTokenPrecedence returned for TokenPrec.
ParseBinOpRHS(s, ExprPrec, LHS) ==
    Then(GetTokenPrecedence(s), LAMBDA t :
        IF t.prec < ExprPrec
        THEN [st |-> t.st, res |-> LHS]
        ELSE
    Then(getNextToken(t.st), LAMBDA s1 :
    Then(ParsePrimary(s1), LAMBDA RHS :
        IF IsNull(RHS.res)
        THEN [st |-> RHS.st, res |-> nullptr]
        ELSE
    Then(GetTokenPrecedence(RHS.st), LAMBDA n :
    Then(IF t.prec < n.prec
         THEN ParseBinOpRHS(n.st, t.prec + 1, RHS.res)
         ELSE [st |-> n.st, res |-> RHS.res], LAMBDA RHS2 :
        IF IsNull(RHS2.res)
        THEN [st |-> RHS2.st, res |-> nullptr]
        ELSE ParseBinOpRHS(RHS2.st, ExprPrec,
                           BinaryExprAST(t.st.CurToken, LHS, RHS2.res)))))))

ParseExpression(s) ==
    Then(ParsePrimary(s), LAMBDA LHS :
        IF IsNull(LHS.res)
        THEN [st |-> LHS.st, res |-> nullptr]
        ELSE ParseBinOpRHS(LHS.st, 0, LHS.res))

\* while(getNextToken() == token_identifier) ArgNames.push_back(IdentifierStr);
ParsePrototypeArgs(s, ArgNames) ==
    Then(getNextToken(s), LAMBDA s1 :
        IF s1.CurToken = token_identifier
        THEN ParsePrototypeArgs(s1, Append(ArgNames, s1.IdentifierStr))
        ELSE [st |-> s1, ArgNames |-> ArgNames])

\* ParsePrototype without the check for ')' after the parameter names.
ParsePrototype_NoCloseCheck(s) ==
    IF s.CurToken /= token_identifier
    THEN LogErrorP(s, "Expected function name in prototype")
    ELSE
    Then(getNextToken(s), LAMBDA s1 :
        IF s1.CurToken /= CH_LPAREN
        THEN LogErrorP(s1, "Expected '(' in prototype")
        ELSE
    Then(ParsePrototypeArgs(s1, <<>>), LAMBDA a :
        [st |-> getNextToken(a.st),
         res |-> PrototypeAST(s.IdentifierStr, a.ArgNames)]))

ParsePrototype(s) ==
    IF s.CurToken /= token_identifier
    THEN LogErrorP(s, "Expected function name in prototype")
    ELSE
    Then(getNextToken(s), LAMBDA s1 :
        IF s1.CurToken /= CH_LPAREN
        THEN LogErrorP(s1, "Expected '(' in prototype")
        ELSE
    Then(ParsePrototypeArgs(s1, <<>>), LAMBDA a :
        IF a.st.CurToken /= CH_RPAREN
        THEN LogErrorP(a.st, "Expected ')' in prototype")
        ELSE [st |-> getNextToken(a.st),
              res |-> PrototypeAST(s.IdentifierStr, a.ArgNames)]))

ParseDefinifion(s) ==
    Then(getNextToken(s), LAMBDA s1 :
    Then(ParsePrototype(s1), LAMBDA Proto :
        IF IsNull(Proto.res)
        THEN [st |-> Proto.st, res |-> nullptr]
        ELSE
    Then(ParseExpression(Proto.st), LAMBDA E :
        IF ~IsNull(E.res)
        THEN [st |-> E.st, res |-> FunctionAST(Proto.res, E.res)]
        ELSE [st |-> E.st, res |-> nullptr])))

AnonExpr == Str(<<"_", "_", "a", "n", "o", "n", "_", "e", "x", "p", "r">>)

ParseTopLevelExpr(s) ==
    Then(ParseExpression(s), LAMBDA E :
        IF ~IsNull(E.res)
        THEN [st |-> E.st,
              res |-> FunctionAST(PrototypeAST(AnonExpr, <<>>), E.res)]
        ELSE [st |-> E.st, res |-> nullptr])

ParseExtern(s) ==
    Then(getNextToken(s), LAMBDA s1 : ParsePrototype(s1))

(***************************************************************************)
(* The driver.  A handler parses one construct and, when the parse         *)
(* failed, skips one token.                                                *)
(***************************************************************************)
HandleDefinition(s) ==
    Then(ParseDefinifion(s), LAMBDA FnAST :
        IF ~IsNull(FnAST.res)
        THEN FnAST
        ELSE [st |-> getNextToken(FnAST.st), res |-> nullptr])

HandleExtern(s) ==
    Then(ParseExtern(s), LAMBDA ProtoAST :
        IF ~IsNull(ProtoAST.res)
        THEN ProtoAST
        ELSE [st |-> getNextToken(ProtoAST.st), res |-> nullptr])

\* HandleTopLevelExpression without the token skipped for error recovery.
HandleTopLevelExpression_NoSkip(s) ==
    Then(ParseTopLevelExpr(s), LAMBDA FnAST :
        IF ~IsNull(FnAST.res)
        THEN FnAST
        ELSE [st |-> FnAST.st, res |-> nullptr])

HandleTopLevelExpression(s) ==
    Then(ParseTopLevelExpr(s), LAMBDA FnAST :
        IF ~IsNull(FnAST.res)
        THEN FnAST
        ELSE [st |-> getNextToken(FnAST.st), res |-> nullptr])

\* The operators installed with '*' at the precedence of '+' and '-'.
InstallOperators_StarAsPlus(s) ==
    [s EXCEPT !.BinOpPrecedence =
        (CH_LESS :> 10) @@ (CH_PLUS :> 20) @@ (CH_MINUS :> 20) @@ (CH_STAR :> 20)]

\* main, lines 575-578: the standard binary operators.
InstallOperators(s) ==
    [s EXCEPT !.BinOpPrecedence =
        (CH_LESS :> 10) @@ (CH_PLUS :> 20) @@ (CH_MINUS :> 20) @@ (CH_STAR :> 40)]


(***************************************************************************)
(* The program as a state machine.                                         *)
(***************************************************************************)
VARIABLES
    stdin, ngetc, LastChar, IdentifierStr, NumVal, CurToken, BinOpPrecedence,
    ntok, diag, errAt,
    pc,       \* where main is: "main", "MainLoop", "done" (or "call", "lex")
    input,    \* the whole text that was on stdin when the program started
    last      \* the latest call made by an action and what it returned

vars ==
    <<stdin, ngetc, LastChar, IdentifierStr, NumVal, CurToken, BinOpPrecedence,
      ntok, diag, errAt, pc, input, last>>

\* The globals as a machine state, and a machine state written back.
Machine ==
    [stdin |-> stdin, ngetc |-> ngetc, LastChar |-> LastChar,
     IdentifierStr |-> IdentifierStr, NumVal |-> NumVal, CurToken |-> CurToken,
     BinOpPrecedence |-> BinOpPrecedence, ntok |-> ntok, diag |-> diag,
     errAt |-> errAt]

Becomes(s) ==
    /\ stdin' = s.stdin
    /\ ngetc' = s.ngetc
    /\ LastChar' = s.LastChar
    /\ IdentifierStr' = s.IdentifierStr
    /\ NumVal' = s.NumVal
    /\ CurToken' = s.CurToken
    /\ BinOpPrecedence' = s.BinOpPrecedence
    /\ ntok' = s.ntok
    /\ diag' = s.diag
    /\ errAt' = s.errAt

\* The statics before main runs: LastChar is ' ', the others are zeroed.
StartMachine(text) ==
    [stdin |-> text, ngetc |-> 0, LastChar |-> CH_SPACE, IdentifierStr |-> <<>>,
     NumVal |-> [m |-> 0, e |-> 0], CurToken |-> 0, BinOpPrecedence |-> <<>>,
     ntok |-> 0, diag |-> <<>>, errAt |-> 0]

NoCall == [fn |-> "none", res |-> nullptr, from |-> 0, state |-> <<>>, arg |-> <<>>]

Start(text) ==
    /\ input = text
    /\ stdin = text
    /\ ngetc = 0
    /\ LastChar = CH_SPACE
    /\ IdentifierStr = <<>>
    /\ NumVal = [m |-> 0, e |-> 0]
    /\ CurToken = 0
    /\ BinOpPrecedence = <<>>
    /\ ntok = 0
    /\ diag = <<>>
    /\ errAt = 0
    /\ last = NoCall

\* What an action records of the call it made: the function, the pointer it
\* returned, the machine state the call was made in (and the number of
\* tokens read by then), and the arguments, if any.
CalledIn(s, fn, res, arg) ==
    [fn |-> fn, res |-> res, from |-> s.ntok, state |-> s, arg |-> arg]

Called(fn, r) == CalledIn(Machine, fn, r.res, <<>>)

(***************************************************************************)
(* Inputs: every text made of at most n lexemes of a set, and the texts    *)
(* of the documented examples.                                             *)
(***************************************************************************)
RECURSIVE Texts(_, _)
Texts(L, n) ==
    IF n = 0 THEN {<<>>}
    ELSE LET T == Texts(L, n - 1) IN T \cup {t \o l : t \in T, l \in L}

MaxOperatorLexemes == 5
MaxCallLexemes == 5
MaxPrototypeLexemes == 4

OperatorLexemes ==
    { Str(<<"1">>), Str(<<"+">>), Str(<<"-">>), Str(<<"*">>), Str(<<"<">>),
      Str(<<"(">>), Str(<<")">>) }

CallLexemes ==
    { Str(<<"a">>), Str(<<"1">>), Str(<<"(">>), Str(<<")">>), Str(<<",">>),
      Str(<<"+">>), Str(<<";">>) }

PrototypeLexemes ==
    { Str(<<"d", "e", "f", " ">>), Str(<<"e", "x", "t", "e", "r", "n", " ">>),
      Str(<<"a", " ">>), Str(<<"b", " ">>), Str(<<"(">>), Str(<<")">>),
      Str(<<",">>) }

\* Two comment lines, "1+", a comment that a carriage return ends, and "2".
CommentExample ==
    Str(<<"#", "c">>) \o <<CH_LF>> \o Str(<<"#">>) \o <<CH_CR>>
    \o Str(<<"1", "+", "#", "+">>) \o <<CH_CR>> \o Str(<<"2">>)

Examples ==
    { Str(<<"1", " ", "+", " ", "2", " ", "*", " ", "3">>),
      Str(<<"1", " ", "-", " ", "2", " ", "-", " ", "3">>),
      Str(<<"f", "o", "o", "(", "a", " ", "b", " ", "c", ")">>),
      Str(<<"f", "o", "o", "(", "a", ",", " ", "b", ")">>),
      Str(<<"f", "o", "o", "(", "1", ",", " ", "2", "+", "3", ")">>),
      Str(<<"f", "o", "o", "(", "1", ",", ")">>),
      Str(<<"(", "1", " ", "+", " ", "2">>),
      Str(<<"4", "0">>),
      Str(<<"1", ".", "5", "*", "(", "a", "<", "b", ")", "-", "f", "(", ")">>),
      Str(<<"d", "e", "f", " ", "f", "o", "o", "(", "a", " ", "b", ")", " ",
            "a", "*", "b", ";">>),
      Str(<<"e", "x", "t", "e", "r", "n", " ", "f", "o", "o", "(", "a", " ",
            "b", " ", "c", ")", ";">>),
      Str(<<"d", "e", "f", " ", "f", "o", "o", "(", "a", ")", " ", "a", "+">>),
      Str(<<"d", "e", "f", " ", "f", "o", "o", "(", "a">>),
      Str(<<"e", "x", "t", "e", "r", "n", " ", "f", "o", "o", "(", "a", ",",
            " ", "b", ")">>),
      Str(<<"1", "+", "1">>) \o <<CH_HIGH>> \o Str(<<"2">>),
      Str(<<"a", " ", "d", "e", "f", " ", "1", " ", "2", " ", "x">>),
      CommentExample }

\* The program starts on one of the inputs.
StartOnInput ==
    \/ \E text \in Texts(OperatorLexemes, MaxOperatorLexemes) : Start(text)
    \/ \E text \in Texts(CallLexemes, MaxCallLexemes) : Start(text)
    \/ \E text \in Texts(PrototypeLexemes, MaxPrototypeLexemes) : Start(text)
    \/ \E text \in Examples : Start(text)

Init ==
    /\ pc = "main"
    /\ StartOnInput

\* main, lines 572-582
main ==
    /\ pc = "main"
    /\ \E s \in {getNextToken(InstallOperators(Machine))} : Becomes(s)
    /\ pc' = "MainLoop"
    /\ UNCHANGED <<input, last>>

\* MainLoop, case token_eof
MainLoop_eof ==
    /\ pc = "MainLoop"
    /\ CurToken = token_eof
    /\ pc' = "done"
    /\ UNCHANGED <<stdin, ngetc, LastChar, IdentifierStr, NumVal, CurToken,
                   BinOpPrecedence, ntok, diag, errAt, input, last>>

\* MainLoop, case ';'
MainLoop_semicolon ==
    /\ pc = "MainLoop"
    /\ CurToken = CH_SEMI
    /\ \E s \in {getNextToken(Machine)} : Becomes(s)
    /\ last' = Called("getNextToken", [res |-> nullptr])
    /\ UNCHANGED <<pc, input>>

\* MainLoop, case token_def
MainLoop_def ==
    /\ pc = "MainLoop"
    /\ CurToken = token_def
    /\ \E r \in {HandleDefinition(Machine)} :
          Becomes(r.st) /\ last' = Called("HandleDefinition", r)
    /\ UNCHANGED <<pc, input>>

\* MainLoop, case token_extern
MainLoop_extern ==
    /\ pc = "MainLoop"
    /\ CurToken = token_extern
    /\ \E r \in {HandleExtern(Machine)} :
          Becomes(r.st) /\ last' = Called("HandleExtern", r)
    /\ UNCHANGED <<pc, input>>

\* MainLoop, default
MainLoop_default ==
    /\ pc = "MainLoop"
    /\ CurToken \notin {token_eof, CH_SEMI, token_def, token_extern}
    /\ \E r \in {HandleTopLevelExpression(Machine)} :
          Becomes(r.st) /\ last' = Called("HandleTopLevelExpression", r)
    /\ UNCHANGED <<pc, input>>

Next ==
    \/ main
    \/ MainLoop_eof
    \/ MainLoop_semicolon
    \/ MainLoop_def
    \/ MainLoop_extern
    \/ MainLoop_default

Spec == Init /\ [][Next]_vars


\* The program is one thread that always takes its next step.
LiveSpec == Spec /\ WF_vars(Next)

(***************************************************************************)
(* The parse functions called one at a time.  main has installed the       *)
(* operators and read the first token; then one parse function is called   *)
(* in a state its callers can call it in:                                  *)
(*   ParseNumberExpr, ParseIdentifierExpr, ParseParenExpr   on the token   *)
(*       ParsePrimary dispatches to them on;                               *)
(*   ParseBinOpRHS   after ParsePrimary has returned its LHS, with an      *)
(*       ExprPrec that ParseExpression (0) or ParseBinOpRHS itself         *)
(*       (TokenPrec + 1) passes;                                           *)
(*   ParseDefinifion, ParseExtern   on the token MainLoop dispatches to    *)
(*       their handlers on.                                                *)
(***************************************************************************)
InitCall ==
    /\ pc = "main"
    /\ StartOnInput

main_call ==
    /\ pc = "main"
    /\ \E s \in {getNextToken(InstallOperators(Machine))} : Becomes(s)
    /\ pc' = "call"
    /\ UNCHANGED <<input, last>>

Returns(fn, r) ==
    /\ Becomes(r.st)
    /\ last' = Called(fn, r)
    /\ pc' = "returned"
    /\ UNCHANGED input

Call_ParseNumberExpr ==
    /\ pc = "call"
    /\ CurToken = token_number
    /\ \E r \in {ParseNumberExpr(Machine)} : Returns("ParseNumberExpr", r)

Call_ParseParenExpr ==
    /\ pc = "call"
    /\ CurToken = CH_LPAREN
    /\ \E r \in {ParseParenExpr(Machine)} : Returns("ParseParenExpr", r)

Call_ParseIdentifierExpr ==
    /\ pc = "call"
    /\ CurToken = token_identifier
    /\ \E r \in {ParseIdentifierExpr(Machine)} : Returns("ParseIdentifierExpr", r)

Call_ParsePrimary ==
    /\ pc = "call"
    /\ \E r \in {ParsePrimary(Machine)} : Returns("ParsePrimary", r)

Call_ParseBinOpRHS ==
    /\ pc = "call"
    /\ \E LHS \in {ParsePrimary(Machine)} :
          /\ ~IsNull(LHS.res)
          /\ \E ExprPrec \in {0, 11, 21, 41} :
               \E r \in {ParseBinOpRHS(LHS.st, ExprPrec, LHS.res)} :
                  /\ Becomes(r.st)
                  /\ last' = CalledIn(LHS.st, "ParseBinOpRHS", r.res,
                                      [ExprPrec |-> ExprPrec, LHS |-> LHS.res])
    /\ pc' = "returned"
    /\ UNCHANGED input

Call_ParseExpression ==
    /\ pc = "call"
    /\ \E r \in {ParseExpression(Machine)} : Returns("ParseExpression", r)

Call_ParsePrototype ==
    /\ pc = "call"
    /\ \E r \in {ParsePrototype(Machine)} : Returns("ParsePrototype", r)

Call_ParseDefinifion ==
    /\ pc = "call"
    /\ CurToken = token_def
    /\ \E r \in {ParseDefinifion(Machine)} : Returns("ParseDefinifion", r)

Call_ParseExtern ==
    /\ pc = "call"
    /\ CurToken = token_extern
    /\ \E r \in {ParseExtern(Machine)} : Returns("ParseExtern", r)

Call_ParseTopLevelExpr ==
    /\ pc = "call"
    /\ \E r \in {ParseTopLevelExpr(Machine)} : Returns("ParseTopLevelExpr", r)

NextCall ==
    \/ main_call
    \/ Call_ParseNumberExpr
    \/ Call_ParseParenExpr
    \/ Call_ParseIdentifierExpr
    \/ Call_ParsePrimary
    \/ Call_ParseBinOpRHS
    \/ Call_ParseExpression
    \/ Call_ParsePrototype
    \/ Call_ParseDefinifion
    \/ Call_ParseExtern
    \/ Call_ParseTopLevelExpr

CallSpec == InitCall /\ [][NextCall]_vars

(***************************************************************************)
(* The lexer called on its own: getNextToken again and again on a text of  *)
(* at most MaxChars characters, and MaxCallsAtEof more times than the text *)
(* can hold tokens.                                                        *)
(***************************************************************************)
MaxChars == 4
MaxCallsAtEof == 2

LexChars ==
    { <<Ord["a"]>>, <<Ord["1"]>>, <<Ord["."]>>, <<Ord["+"]>>, <<CH_HASH>>,
      <<CH_LF>>, <<CH_CR>>, <<CH_SPACE>> }

InitLex ==
    /\ pc = "lex"
    /\ \/ \E text \in Texts(LexChars, MaxChars) : Start(text)
       \/ \E text \in Examples : Start(text)

Call_getNextToken ==
    /\ pc = "lex"
    /\ ntok < Len(input) + 1 + MaxCallsAtEof
    /\ \E s \in {getNextToken(Machine)} : Becomes(s)
    /\ last' = Called("getNextToken", [res |-> nullptr])
    /\ UNCHANGED <<pc, input>>

NextLex == Call_getNextToken

LexSpec == InitLex /\ [][NextLex]_vars


(***************************************************************************)
(* What the claims are stated with: the token sequence of a text, and a    *)
(* reference grammar over token sequences.                                 *)
(*                                                                         *)
(*   expression ::= sum    ( '<' sum )*                                    *)
(*   sum        ::= product ( ('+' | '-') product )*                       *)
(*   product    ::= primary ( '*' primary )*                               *)
(*   primary    ::= number | identifier                                    *)
(*                | identifier '(' [ expression ( ',' expression )* ] ')'  *)
(*                | '(' expression ')'                                     *)
(*   prototype  ::= identifier '(' identifier* ')'                         *)
(*                                                                         *)
(* with every repetition grouping to the left.  Ref...(ts, i) reads the    *)
(* construct that starts at token i: ok, its tree, and the index of the    *)
(* first token after it.                                                   *)
(***************************************************************************)
RECURSIVE LexAll(_)
LexAll(s) ==
    Then(getToken(s), LAMBDA r :
        IF r.tok = token_eof
        THEN <<>>
        ELSE <<[tok |-> r.tok, id |-> r.st.IdentifierStr, num |-> r.st.NumVal]>>
             \o LexAll(r.st))

TokensOf(text) == LexAll(StartMachine(text))

TokAt(ts, i) == IF i \in 1..Len(ts) THEN ts[i].tok ELSE token_eof

RefFail == [ok |-> FALSE, ast |-> nullptr, next |-> 0]

RefLevelOps(level) ==
    IF level = 1 THEN {CH_LESS}
    ELSE IF level = 2 THEN {CH_PLUS, CH_MINUS}
    ELSE {CH_STAR}

RECURSIVE RefLevel(_, _, _)
RECURSIVE RefLevelTail(_, _, _, _)
RECURSIVE RefPrimary(_, _)
RECURSIVE RefArgs(_, _, _)

RefExpression(ts, i) == RefLevel(ts, i, 1)

RefLevel(ts, i, level) ==
    IF level = 4 THEN RefPrimary(ts, i)
    ELSE LET a == RefLevel(ts, i, level + 1)
         IN  IF a.ok THEN RefLevelTail(ts, a.ast, a.next, level) ELSE RefFail

RefLevelTail(ts, lhs, i, level) ==
    IF TokAt(ts, i) \in RefLevelOps(level)
    THEN LET b == RefLevel(ts, i + 1, level + 1)
         IN  IF b.ok
             THEN RefLevelTail(ts, BinaryExprAST(TokAt(ts, i), lhs, b.ast),
                               b.next, level)
             ELSE RefFail
    ELSE [ok |-> TRUE, ast |-> lhs, next |-> i]

RefArgs(ts, i, args) ==
    LET e == RefExpression(ts, i)
    IN  IF ~e.ok THEN RefFail
        ELSE IF TokAt(ts, e.next) = CH_RPAREN
        THEN [ok |-> TRUE, ast |-> Append(args, e.ast), next |-> e.next + 1]
        ELSE IF TokAt(ts, e.next) = CH_COMMA
        THEN RefArgs(ts, e.next + 1, Append(args, e.ast))
        ELSE RefFail

RefPrimary(ts, i) ==
    IF TokAt(ts, i) = token_number
    THEN [ok |-> TRUE, ast |-> NumberExprAST(ts[i].num), next |-> i + 1]
    ELSE IF TokAt(ts, i) = token_identifier
    THEN IF TokAt(ts, i + 1) /= CH_LPAREN
         THEN [ok |-> TRUE, ast |-> VariableExprAST(ts[i].id), next |-> i + 1]
         ELSE IF TokAt(ts, i + 2) = CH_RPAREN
         THEN [ok |-> TRUE, ast |-> CallExprAST(ts[i].id, <<>>), next |-> i + 3]
         ELSE LET a == RefArgs(ts, i + 2, <<>>)
              IN  IF a.ok
                  THEN [ok |-> TRUE, ast |-> CallExprAST(ts[i].id, a.ast),
                        next |-> a.next]
                  ELSE RefFail
    ELSE IF TokAt(ts, i) = CH_LPAREN
    THEN LET e == RefExpression(ts, i + 1)
         IN  IF e.ok /\ TokAt(ts, e.next) = CH_RPAREN
             THEN [ok |-> TRUE, ast |-> e.ast, next |-> e.next + 1]
             ELSE RefFail
    ELSE RefFail

\* The literal n, and the variable whose name is the text t.
Num(n) == NumberExprAST([m |-> n, e |-> 0])
Var(t) == VariableExprAST(Str(t))

Returned(fn) == pc = "returned" /\ last.fn = fn

(***************************************************************************)
(* C1.  With the default operator table, ParseExpression on a text that    *)
(* is a valid expression succeeds and returns the tree of the reference    *)
(* grammar: '*' binds tighter than '+' and '-', which bind tighter than    *)
(* '<', and operators of equal precedence group to the left.  1 + 2 * 3    *)
(* is +(1, *(2, 3)) and 1 - 2 - 3 is -(-(1, 2), 3).                        *)
(***************************************************************************)
C1_ReferenceTree ==
    Returned("ParseExpression") =>
        /\ LET ts == TokensOf(input)
               ref == RefExpression(ts, 1)
           IN  (ref.ok /\ ref.next = Len(ts) + 1) => last.res = ref.ast
        /\ input = Str(<<"1", " ", "+", " ", "2", " ", "*", " ", "3">>)
             => last.res = BinaryExprAST(CH_PLUS, Num(1),
                                         BinaryExprAST(CH_STAR, Num(2), Num(3)))
        /\ input = Str(<<"1", " ", "-", " ", "2", " ", "-", " ", "3">>)
             => last.res = BinaryExprAST(CH_MINUS,
                                         BinaryExprAST(CH_MINUS, Num(1), Num(2)),
                                         Num(3))

C1_Witness ==
    /\ Returned("ParseExpression")
    /\ input = Str(<<"1", "+", "1", "*", "1">>)
    /\ last.res = BinaryExprAST(CH_PLUS, Num(1),
                                BinaryExprAST(CH_STAR, Num(1), Num(1)))


\* The text and the tokens a call was made on: the call started at token
\* last.from of the input, which was the current token.
Ts == TokensOf(input)
K == last.from
\* The messages LogError has written during the call.
NewDiag == SubSeq(diag, Len(last.state.diag) + 1, Len(diag))

(***************************************************************************)
(* C3.  ParsePrototype succeeds exactly on Identifier '(' Identifier* ')'  *)
(* and returns the name and the parameter names in source order; it fails  *)
(* with "Expected function name in prototype" when the current token is    *)
(* no identifier, with "Expected '(' in prototype" when the token after    *)
(* the name is not '(', and with "Expected ')' in prototype" when the run   *)
(* of parameter names is ended by anything but ')', a comma included.      *)
(***************************************************************************)
IsIdent(ts, i) == TokAt(ts, i) = token_identifier

\* The index of the first token from i on that is no identifier.
RunEnd(ts, i) ==
    CHOOSE j \in i..(Len(ts) + 1) :
        /\ ~IsIdent(ts, j)
        /\ \A m \in i..(j - 1) : IsIdent(ts, m)

IsPrototypeAt(ts, i) ==
    /\ IsIdent(ts, i)
    /\ TokAt(ts, i + 1) = CH_LPAREN
    /\ TokAt(ts, RunEnd(ts, i + 2)) = CH_RPAREN

PrototypeAt(ts, i) ==
    PrototypeAST(ts[i].id,
                 [n \in 1..(RunEnd(ts, i + 2) - (i + 2)) |-> ts[i + 1 + n].id])

C3_Prototype ==
    Returned("ParsePrototype") =>
        /\ ~IsNull(last.res) <=> IsPrototypeAt(Ts, K)
        /\ IsPrototypeAt(Ts, K)
             => last.res = PrototypeAt(Ts, K) /\ NewDiag = <<>>
        /\ ~IsIdent(Ts, K)
             => NewDiag = <<"Expected function name in prototype">>
        /\ IsIdent(Ts, K) /\ TokAt(Ts, K + 1) /= CH_LPAREN
             => NewDiag = <<"Expected '(' in prototype">>
        /\ (/\ IsIdent(Ts, K)
            /\ TokAt(Ts, K + 1) = CH_LPAREN
            /\ TokAt(Ts, RunEnd(Ts, K + 2)) /= CH_RPAREN)
             => NewDiag = <<"Expected ')' in prototype">>
        /\ input = Str(<<"f", "o", "o", "(", "a", " ", "b", " ", "c", ")">>)
             => last.res = PrototypeAST(Str(<<"f", "o", "o">>),
                                        <<Str(<<"a">>), Str(<<"b">>), Str(<<"c">>)>>)
        /\ input = Str(<<"f", "o", "o", "(", "a", ",", " ", "b", ")">>)
             => /\ IsNull(last.res)
                /\ NewDiag = <<"Expected ')' in prototype">>

C3_Witness ==
    /\ Returned("ParsePrototype")
    /\ input = Str(<<"f", "o", "o", "(", "a", " ", "b", " ", "c", ")">>)
    /\ last.res = PrototypeAST(Str(<<"f", "o", "o">>),
                               <<Str(<<"a">>), Str(<<"b">>), Str(<<"c">>)>>)

(***************************************************************************)
(* C4.  ParseIdentifierExpr, entered on an identifier, returns the         *)
(* variable when the next token is not '(', and otherwise the call whose   *)
(* arguments are the expressions between '(' and ')' separated by ',', in  *)
(* source order; "()" gives no arguments; any number of arguments is       *)
(* accepted; a token after an argument that is neither ',' nor ')' fails   *)
(* with "expected ')' or ',' in argument list", and ",)" fails too.        *)
(***************************************************************************)
\* Whether, reading the arguments from token i on, an argument is followed
\* by a token that is neither ',' nor ')'.
RECURSIVE RefArgsBadSeparator(_, _)
RefArgsBadSeparator(ts, i) ==
    LET e == RefExpression(ts, i)
    IN  IF ~e.ok THEN FALSE
        ELSE IF TokAt(ts, e.next) = CH_RPAREN THEN FALSE
        ELSE IF TokAt(ts, e.next) = CH_COMMA
        THEN RefArgsBadSeparator(ts, e.next + 1)
        ELSE TRUE

C4_IdentifierExpr ==
    Returned("ParseIdentifierExpr") =>
        /\ TokAt(Ts, K + 1) /= CH_LPAREN
             => last.res = VariableExprAST(Ts[K].id)
        /\ TokAt(Ts, K + 1) = CH_LPAREN /\ TokAt(Ts, K + 2) = CH_RPAREN
             => last.res = CallExprAST(Ts[K].id, <<>>)
        /\ TokAt(Ts, K + 1) = CH_LPAREN
             => IF RefPrimary(Ts, K).ok
                THEN /\ last.res = RefPrimary(Ts, K).ast
                     /\ last.res.kind = "Call"
                     /\ NewDiag = <<>>
                ELSE IsNull(last.res)
        /\ (/\ TokAt(Ts, K + 1) = CH_LPAREN
            /\ TokAt(Ts, K + 2) /= CH_RPAREN
            /\ RefArgsBadSeparator(Ts, K + 2))
             => /\ IsNull(last.res)
                /\ NewDiag = <<"expected ')' or ',' in argument list">>
        /\ input = Str(<<"f", "o", "o", "(", "1", ",", " ", "2", "+", "3", ")">>)
             => last.res = CallExprAST(Str(<<"f", "o", "o">>),
                               <<Num(1), BinaryExprAST(CH_PLUS, Num(2), Num(3))>>)
        /\ input = Str(<<"f", "o", "o", "(", "1", ",", ")">>)
             => IsNull(last.res)

C4_Witness ==
    /\ Returned("ParseIdentifierExpr")
    /\ input = Str(<<"f", "o", "o", "(", "1", ",", " ", "2", "+", "3", ")">>)
    /\ last.res.kind = "Call"
    /\ Len(last.res.Args) = 2


(***************************************************************************)
(* C10.  One token of look-ahead: when a parse function returns a result,  *)
(* it has read exactly the tokens of the construct of the reference        *)
(* grammar that starts at the token it was called on, and the current      *)
(* token is the first token after that construct.  ParseBinOpRHS called    *)
(* on a token whose precedence is below ExprPrec returns LHS and reads no  *)
(* token.                                                                  *)
(***************************************************************************)
RefPrec(c) ==
    IF c = CH_LESS THEN 10
    ELSE IF c \in {CH_PLUS, CH_MINUS} THEN 20
    ELSE IF c = CH_STAR THEN 40
    ELSE -1

\* The lowest level of the grammar whose operators bind at least ExprPrec.
RefMinLevel(ExprPrec) ==
    IF ExprPrec <= 10 THEN 1
    ELSE IF ExprPrec <= 20 THEN 2
    ELSE IF ExprPrec <= 40 THEN 3
    ELSE 4

\* lhs continued with the operators of levels 3 down to minLevel.
RECURSIVE RefTailFrom(_, _, _, _, _)
RefTailFrom(ts, lhs, i, level, minLevel) ==
    IF level < minLevel
    THEN [ok |-> TRUE, ast |-> lhs, next |-> i]
    ELSE LET a == RefLevelTail(ts, lhs, i, level)
         IN  IF a.ok
             THEN RefTailFrom(ts, a.ast, a.next, level - 1, minLevel)
             ELSE RefFail

RefPrototypeEnd(ts, i) ==
    IF IsPrototypeAt(ts, i) THEN RunEnd(ts, i + 2) + 1 ELSE 0

\* The index of the first token after the construct the latest call parsed.
RefNext ==
    CASE last.fn = "ParseNumberExpr" -> K + 1
      [] last.fn \in {"ParseParenExpr", "ParseIdentifierExpr", "ParsePrimary"}
           -> RefPrimary(Ts, K).next
      [] last.fn \in {"ParseExpression", "ParseTopLevelExpr"}
           -> RefExpression(Ts, K).next
      [] last.fn = "ParsePrototype" -> RefPrototypeEnd(Ts, K)
      [] last.fn = "ParseExtern" -> RefPrototypeEnd(Ts, K + 1)
      [] last.fn = "ParseDefinifion"
           -> RefExpression(Ts, RefPrototypeEnd(Ts, K + 1)).next
      [] last.fn = "ParseBinOpRHS"
           -> RefTailFrom(Ts, last.arg.LHS, K, 3,
                          RefMinLevel(last.arg.ExprPrec)).next

C10_OneTokenLookahead ==
    pc = "returned" =>
        /\ ~IsNull(last.res) =>
              /\ ntok = RefNext
              /\ CurToken = TokAt(Ts, ntok)
              /\ CurToken = token_identifier => IdentifierStr = Ts[ntok].id
              /\ CurToken = token_number => NumVal = Ts[ntok].num
        /\ (last.fn = "ParseBinOpRHS"
              /\ RefPrec(TokAt(Ts, K)) < last.arg.ExprPrec)
             => last.res = last.arg.LHS /\ ntok = K

C10_Witness ==
    /\ Returned("ParseBinOpRHS")
    /\ input = Str(<<"1", "+", "1", "*", "1">>)
    /\ last.arg.ExprPrec = 21
    /\ last.res = Num(1)
    /\ ntok = 2
    /\ CurToken = CH_PLUS

RECURSIVE BinOps(_)
BinOps(n) ==
    CASE n.kind = "Binary" -> {n.Op} \cup BinOps(n.LHS) \cup BinOps(n.RHS)
      [] n.kind = "Call" -> UNION {BinOps(n.Args[i]) : i \in 1..Len(n.Args)}
      [] n.kind = "Function" -> BinOps(n.Body)
      [] OTHER -> {}

Registered(c) == c \in DOMAIN BinOpPrecedence /\ BinOpPrecedence[c] > 0

C7_OperatorsRegistered ==
    pc = "returned" =>
        /\ \A op \in BinOps(last.res) : Registered(op)
        /\ (/\ ~IsNull(last.res)
            /\ last.fn \in {"ParseExpression", "ParseTopLevelExpr",
                            "ParseDefinifion"})
             => ~Registered(CurToken)

C7_Witness ==
    /\ Returned("ParseExpression")
    /\ input = Str(<<"1", "+", "1">>) \o <<CH_HIGH>> \o Str(<<"2">>)
    /\ last.res = BinaryExprAST(CH_PLUS, Num(1), Num(1))
    /\ CurToken = CH_HIGH

(***************************************************************************)
(* C6.  No parse operation changes the operator table: after main has      *)
(* installed the operators, every step of the driver loop leaves the       *)
(* table's entries and their precedences as they were.                     *)
(***************************************************************************)
C6_TableUnchanged == [][pc = "MainLoop" => BinOpPrecedence' = BinOpPrecedence]_vars

(***************************************************************************)
(* C9.  MainLoop ends on every input: an iteration that starts on the end  *)
(* of the input returns, and every other iteration reads at least one      *)
(* token and leaves fewer tokens to read than it found.                    *)
(***************************************************************************)
\* The tokens that are left: the current one and those not lexed yet.
TokensLeft ==
    (IF CurToken = token_eof THEN 0 ELSE 1) + Len(LexAll(Machine))

C9_MainLoopTerminates ==
    /\ <>(pc = "done")
    /\ [][pc = "MainLoop" =>
            IF CurToken = token_eof
            THEN pc' = "done"
            ELSE /\ pc' = "MainLoop"
                 /\ ntok' > ntok
                 /\ TokensLeft' < TokensLeft]_vars

C9_Witness ==
    /\ pc = "done"
    /\ input = Str(<<"d", "e", "f", " ", "f", "o", "o", "(", "a">>)
    /\ last.fn = "HandleDefinition"
    /\ IsNull(last.res)

(***************************************************************************)
(* C5.  Once getchar() has returned EOF, every call of getToken returns    *)
(* token_eof and calls getchar() no more: the look-ahead character stays   *)
(* EOF.                                                                    *)
(***************************************************************************)
C5_EofIsSticky ==
    [][(pc = "lex" /\ LastChar = EOF) =>
          /\ CurToken' = token_eof
          /\ LastChar' = EOF
          /\ ngetc' = ngetc
          /\ stdin' = stdin]_vars

C5_Witness ==
    /\ pc = "lex"
    /\ input = Str(<<"a", "1", ".", "#">>)
    /\ last.fn = "getNextToken"
    /\ last.state.LastChar = EOF
    /\ last.state.CurToken = token_eof
    /\ CurToken = token_eof

(***************************************************************************)
(* C8.  On '#' at the start of a token getToken drops the characters up    *)
(* to the next line feed, carriage return or end of input and returns the  *)
(* token that starts at that line terminator (token_eof at the end of the  *)
(* input); a text and the text without its comments have the same tokens.  *)
(***************************************************************************)
RECURSIVE StripComments(_, _)
StripComments(text, inComment) ==
    IF text = <<>> THEN <<>>
    ELSE IF inComment
    THEN IF Head(text) \in {CH_LF, CH_CR}
         THEN <<Head(text)>> \o StripComments(Tail(text), FALSE)
         ELSE StripComments(Tail(text), TRUE)
    ELSE IF Head(text) = CH_HASH
    THEN StripComments(Tail(text), TRUE)
    ELSE <<Head(text)>> \o StripComments(Tail(text), FALSE)

\* The state s with the look-ahead at the first line terminator of its
\* unread input, which is at index k.
AtTerminator(s, k) ==
    [s EXCEPT !.LastChar = s.stdin[k],
              !.stdin = SubSeq(s.stdin, k + 1, Len(s.stdin))]

Terminators(text) == {i \in 1..Len(text) : text[i] \in {CH_LF, CH_CR}}

Min(S) == CHOOSE i \in S : \A j \in S : i <= j

C8_CommentSkipped ==
    /\ TokensOf(input) = TokensOf(StripComments(input, FALSE))
    /\ (last.fn = "getNextToken" /\ SkipSpaces(last.state).LastChar = CH_HASH)
         => LET w == SkipSpaces(last.state)
            IN  IF Terminators(w.stdin) = {}
                THEN CurToken = token_eof /\ LastChar = EOF /\ stdin = <<>>
                ELSE LET r == getToken(AtTerminator(w, Min(Terminators(w.stdin))))
                     IN  /\ CurToken = r.tok
                         /\ IdentifierStr = r.st.IdentifierStr
                         /\ NumVal = r.st.NumVal
                         /\ LastChar = r.st.LastChar
                         /\ stdin = r.st.stdin

C8_Witness ==
    /\ pc = "lex"
    /\ input = CommentExample
    /\ ntok = 1
    /\ CurToken = token_number
    /\ NumVal = [m |-> 1, e |-> 0]
    /\ LastChar = CH_PLUS

====
